---------------------------- MODULE Spec2Model ----------------------------
(***************************************************************************)
(* A model of plot_utils.py (necst/approximate-spmv-topk):                 *)
(*   - compute_speedup_df : the grouped, baseline-relative speedup         *)
(*     computation with geometric-mean correction (specification Spec);    *)
(*   - fix_label_length   : label truncation (specification SpecLabel);    *)
(*   - remove_outliers    : z-score outlier filter (specification          *)
(*     SpecOutliers);                                                      *)
(*   - add_labels         : bar-label placement (specification SpecBars).  *)
(*                                                                         *)
(* Numbers.  Timing values are positive integers.  Every value the         *)
(* speedup computation produces from them is a product of rational powers  *)
(* of the primes in Primes (a quotient of rationals, then divided by an    *)
(* n-th root of a product of such values), so a number is kept exactly as  *)
(* the vector of its prime exponents, each a reduced fraction <<n, d>>.    *)
(* NaN (the aggregate of an empty series) and the integer 0 (the initial   *)
(* baseline_time) are values of their own.                                 *)
(***************************************************************************)
EXTENDS Integers, Sequences, FiniteSets

\* ------------------------------------------------------------- bounds
MaxRows == 3
MaxCalls == 2
MaxLabels == 2
MaxLabelLen == 4
MaxLength == 4
MaxData == 5
MaxValue == 3
MaxSigma == 2
MaxBars == 3
MaxHeight == 2

Keys == {1, 2}
FlagValues == {0, 1}
TimeValues == {1, 2}
Primes == {2, 3}

\* ------------------------------------------------ exact arithmetic
Abs(x) == IF x < 0 THEN -x ELSE x

RECURSIVE GCD(_, _)
GCD(a, b) == IF b = 0 THEN Abs(a) ELSE GCD(b, a % b)

\* A fraction n/d in lowest terms, d > 0.
Frac(n, d) ==
    LET g == GCD(Abs(n), Abs(d))
        s == IF d < 0 THEN -1 ELSE 1
    IN  <<(s * n) \div g, (s * d) \div g>>

FracAdd(a, b) == Frac(a[1] * b[2] + b[1] * a[2], a[2] * b[2])
FracSub(a, b) == Frac(a[1] * b[2] - b[1] * a[2], a[2] * b[2])
FracDivInt(a, k) == Frac(a[1], a[2] * k)
FracMul(a, b) == Frac(a[1] * b[1], a[2] * b[2])
FracLess(a, b) == a[1] * b[2] < b[1] * a[2]

ZeroExp == [p \in Primes |-> <<0, 1>>]

NaN == [kind |-> "nan", exp |-> ZeroExp]
Zero == [kind |-> "zero", exp |-> ZeroExp]
Inf == [kind |-> "inf", exp |-> ZeroExp]
Absent == [kind |-> "absent", exp |-> ZeroExp]
Pos(e) == [kind |-> "pos", exp |-> e]
One == Pos(ZeroExp)

\* The exponent of the prime p in the positive integer n.
RECURSIVE ExpOf(_, _)
ExpOf(p, n) == IF n % p = 0 THEN 1 + ExpOf(p, n \div p) ELSE 0

FromInt(n) == Pos([p \in Primes |-> <<ExpOf(p, n), 1>>])

\* x * y and x / y in floating point, for values that are not negative:
\* NaN is absorbing; 0 * inf, 0 / 0 and inf / inf are NaN; x / 0 is inf for
\* x > 0; 0 / y is 0 for y > 0.
NumMul(x, y) ==
    IF x.kind = "nan" \/ y.kind = "nan" THEN NaN
    ELSE IF x.kind = "zero" THEN (IF y.kind = "inf" THEN NaN ELSE Zero)
    ELSE IF y.kind = "zero" THEN (IF x.kind = "inf" THEN NaN ELSE Zero)
    ELSE IF x.kind = "inf" \/ y.kind = "inf" THEN Inf
    ELSE Pos([p \in Primes |-> FracAdd(x.exp[p], y.exp[p])])

NumDiv(x, y) ==
    IF x.kind = "nan" \/ y.kind = "nan" THEN NaN
    ELSE IF y.kind = "zero" THEN (IF x.kind = "zero" THEN NaN ELSE Inf)
    ELSE IF y.kind = "inf" THEN (IF x.kind = "inf" THEN NaN ELSE Zero)
    ELSE IF x.kind = "zero" THEN Zero
    ELSE IF x.kind = "inf" THEN Inf
    ELSE Pos([p \in Primes |-> FracSub(x.exp[p], y.exp[p])])

\* The k-th root of x, k >= 1.
NumRoot(x, k) ==
    IF x.kind = "pos" THEN Pos([p \in Primes |-> FracDivInt(x.exp[p], k)])
    ELSE x

FromFrac(q) == NumDiv(FromInt(q[1]), FromInt(q[2]))


\* ---------------------------------------------------------------- state
VARIABLES
    \* compute_speedup_df
    data,           \* the table: a sequence of rows, mutated in place
    correction,     \* the correction argument
    pc,             \* "idle" | "loop" | "returned"; "call" | "done" for
                    \* the other functions
    grouped,        \* grouped_data: the rows the groups are sliced from
    todo,           \* group keys the loop has still to visit, in order
    processed,      \* group keys the loop has visited, in order
    calls,          \* calls of compute_speedup_df started so far
    prev,           \* the table as the previous call returned it
    \* fix_label_length
    labels, max_length, fixed_labels,
    \* remove_outliers
    xs, sigmas, kept,
    \* add_labels
    bars, offsets_arg, patch_num, skip_zero, max_only, skip_bars, max_bars,
    ylim, texts

speedupVars == <<data, correction, grouped, todo, processed, calls, prev>>
labelVars == <<labels, max_length, fixed_labels>>
outlierVars == <<xs, sigmas, kept>>
barVars == <<bars, offsets_arg, patch_num, skip_zero, max_only, skip_bars,
             max_bars, ylim, texts>>
vars == <<pc, speedupVars, labelVars, outlierVars, barVars>>

\* An optional argument: <<>> for None, <<x>> for the value x.
None == <<>>
Some(x) == <<x>>

\* ------------------------------------------------- compute_speedup_df
\* Column names of the call: the grouping key, the baseline filter
\* (baseline_filter_col, baseline_filter_val) and the timing column.
key == "key"
baseline_filter_col == <<"f1", "f2">>
baseline_filter_val == <<1, 1>>
time_column == "exec_time"
speedup_col_name == "speedup"
baseline_col_name == "baseline_time"

InputRows ==
    [key : Keys, f1 : FlagValues, f2 : FlagValues, exec_time : TimeValues,
     speedup : {Absent}, baseline_time : {Absent}]

Tables == UNION {[1..n -> InputRows] : n \in 1..MaxRows}

Range(f) == {f[i] : i \in DOMAIN f}

\* data[speedup_col_name] = 1; data[baseline_col_name] = 0
InitColumns(d) ==
    [i \in DOMAIN d |-> [d[i] EXCEPT !.speedup = One, !.baseline_time = Zero]]

\* Mutant of GroupKeys: groupby(key, sort=False), the keys in first-seen order.
RECURSIVE FirstSeenKeys(_, _)
FirstSeenKeys(d, n) ==
    IF n = 0 THEN <<>>
    ELSE LET before == FirstSeenKeys(d, n - 1)
         IN  IF d[n]["key"] \in {before[j] : j \in DOMAIN before} THEN before
             ELSE Append(before, d[n]["key"])

GroupKeysUnsorted(d) == FirstSeenKeys(d, Len(d))

\* data.groupby(key): the distinct key values in ascending order (sort=True
\* is groupby's default).
RECURSIVE SortedKeys(_)
SortedKeys(S) ==
    IF S = {} THEN <<>>
    ELSE LET m == CHOOSE x \in S : \A y \in S : x <= y
         IN  <<m>> \o SortedKeys(S \ {m})

GroupKeys(d) == SortedKeys({d[i][key] : i \in DOMAIN d})

GroupIndex(d, k) == {i \in DOMAIN d : d[i][key] = k}

\* data[data[i] == j].index
MatchIndex(d, col, val) == {i \in DOMAIN d : d[i][col] = val}

\* Mutant of ReduceIntersection: the per-field matches are united.
RECURSIVE ReduceUnion(_)
ReduceUnion(indices) ==
    IF Len(indices) = 1 THEN indices[1]
    ELSE ReduceUnion(
            <<indices[1] \cup indices[2]>> \o SubSeq(indices, 3, Len(indices)))

\* reduce(lambda x, y: x.intersection(y), indices)
RECURSIVE ReduceIntersection(_)
ReduceIntersection(indices) ==
    IF Len(indices) = 1 THEN indices[1]
    ELSE ReduceIntersection(
            <<indices[1] \cap indices[2]>> \o SubSeq(indices, 3, Len(indices)))

ReducedIndex(d) ==
    ReduceIntersection(
        [n \in DOMAIN baseline_filter_col |->
            MatchIndex(d, baseline_filter_col[n], baseline_filter_val[n])])

\* data.loc[index, col]: the column's values at the rows of index.
Series(d, index, col) == [i \in index |-> d[i][col]]

\* np.median of a series of integers: the middle value of the sorted
\* values, the mean of the two middle values for an even count, NaN for
\* an empty series.
KthSmallest(f, k) ==
    CHOOSE v \in Range(f) :
        /\ Cardinality({i \in DOMAIN f : f[i] < v}) < k
        /\ k <= Cardinality({i \in DOMAIN f : f[i] <= v})

aggregation(f) ==
    LET n == Cardinality(DOMAIN f)
    IN  IF n = 0 THEN NaN
        ELSE IF n % 2 = 1 THEN FromInt(KthSmallest(f, (n + 1) \div 2))
        ELSE FromFrac(Frac(KthSmallest(f, n \div 2)
                           + KthSmallest(f, n \div 2 + 1), 2))

\* scipy's gmean: exp(mean(log(a))), NaN for an empty series.
RECURSIVE Product(_, _)
Product(f, S) ==
    IF S = {} THEN One
    ELSE LET i == CHOOSE j \in S : TRUE
         IN  NumMul(f[i], Product(f, S \ {i}))

gmean(f) ==
    IF DOMAIN f = {} THEN NaN
    ELSE NumRoot(Product(f, DOMAIN f), Cardinality(DOMAIN f))

\* The rows of group k: a slice of grouped_data.
Group(g, k) == [i \in GroupIndex(g, k) |-> g[i]]

\* Mutants of SetSpeedup: the baseline column is not written; the quotient
\* is inverted; the timing column is normalised in place.
SetSpeedupNoBaseline(row, median_baseline) ==
    [row EXCEPT !.speedup = NumDiv(median_baseline, FromInt(row[time_column]))]

SetSpeedupInverted(row, median_baseline) ==
    [row EXCEPT !.speedup = NumDiv(FromInt(row[time_column]), median_baseline),
                !.baseline_time = median_baseline]

SetSpeedupInPlace(row, median_baseline) ==
    [row EXCEPT !.speedup = NumDiv(median_baseline, FromInt(row[time_column])),
                !.baseline_time = median_baseline,
                !.exec_time = 1]

\* group.loc[:, speedup_col_name] = median_baseline / group[time_column]
\* group.loc[:, baseline_col_name] = median_baseline
SetSpeedup(row, median_baseline) ==
    [row EXCEPT !.speedup = NumDiv(median_baseline, FromInt(row[time_column])),
                !.baseline_time = median_baseline]

\* group.loc[:, speedup_col_name] /= gmean_speedup
Rescale(row, gmean_speedup) ==
    [row EXCEPT !.speedup = NumDiv(row.speedup, gmean_speedup)]

\* data.loc[group.index, :] = group
WriteBack(d, group) ==
    [i \in DOMAIN d |-> IF i \in DOMAIN group THEN group[i] ELSE d[i]]

\* One iteration of the loop over the groups, for the group with key k.
ProcessGroup(d, g, k, corr) ==
    LET reduced_index == ReducedIndex(d)
        median_baseline == aggregation(Series(d, reduced_index, time_column))
        group1 == [i \in GroupIndex(g, k) |->
                      SetSpeedup(Group(g, k)[i], median_baseline)]
        d1 == WriteBack(d, group1)
        gmean_speedup == gmean(Series(d1, reduced_index, speedup_col_name))
        group2 == [i \in DOMAIN group1 |-> Rescale(group1[i], gmean_speedup)]
    IN  IF corr THEN WriteBack(d1, group2) ELSE d1

\* The whole loop, visiting the groups in the given order.
RECURSIVE RunLoop(_, _, _, _)
RunLoop(d, g, order, corr) ==
    IF order = <<>> THEN d
    ELSE RunLoop(ProcessGroup(d, g, Head(order), corr), g, Tail(order), corr)

\* compute_speedup_df is called.
Call ==
    /\ pc \in {"idle", "returned"}
    /\ calls < MaxCalls
    /\ data' = InitColumns(data)
    /\ grouped' = data'
    /\ todo' = GroupKeys(data')
    /\ processed' = <<>>
    /\ pc' = "loop"
    /\ calls' = calls + 1
    /\ prev' = data
    /\ UNCHANGED <<correction, labelVars, outlierVars, barVars>>

\* for group_key, group in grouped_data: one iteration.
Iterate ==
    /\ pc = "loop"
    /\ todo # <<>>
    /\ data' = ProcessGroup(data, grouped, Head(todo), correction)
    /\ todo' = Tail(todo)
    /\ processed' = Append(processed, Head(todo))
    /\ UNCHANGED <<pc, correction, grouped, calls, prev, labelVars,
                   outlierVars, barVars>>

\* The loop is over: compute_speedup_df returns.
Return ==
    /\ pc = "loop"
    /\ todo = <<>>
    /\ pc' = "returned"
    /\ UNCHANGED <<data, correction, grouped, todo, processed, calls, prev,
                   labelVars, outlierVars, barVars>>

\* The state of the functions a specification does not exercise.
InertLabel == labels = <<>> /\ max_length = 0 /\ fixed_labels = <<>>
InertOutliers == xs = <<>> /\ sigmas = 0 /\ kept = <<>>
InertBars ==
    /\ bars = <<>> /\ offsets_arg = <<>> /\ patch_num = {}
    /\ skip_zero = FALSE /\ max_only = FALSE /\ skip_bars = 0
    /\ max_bars = None /\ ylim = 0 /\ texts = <<>>
InertSpeedup ==
    /\ data = <<>> /\ correction = FALSE /\ grouped = <<>>
    /\ todo = <<>> /\ processed = <<>> /\ calls = 0 /\ prev = <<>>

Init ==
    /\ data \in Tables
    /\ correction \in BOOLEAN
    /\ pc = "idle"
    /\ grouped = <<>>
    /\ todo = <<>>
    /\ processed = <<>>
    /\ calls = 0
    /\ prev = <<>>
    /\ InertLabel /\ InertOutliers /\ InertBars

Next == Call \/ Iterate \/ Return

Spec == Init /\ [][Next]_vars


\* ------------------------------------------ compute_speedup_df: claims
Returned == pc = "returned"
BaselineSubset == ReducedIndex(data)
Reference == aggregation(Series(data, BaselineSubset, time_column))
KeysPresent == {data[i][key] : i \in DOMAIN data}
Derived(d) == [i \in DOMAIN d |-> <<d[i].speedup, d[i].baseline_time>>]

\* Every order of visiting the groups of d.
Orders(d) ==
    {o \in [1..Cardinality({d[i][key] : i \in DOMAIN d}) -> Keys] :
        Range(o) = {d[i][key] : i \in DOMAIN d}}

\* C1 (as stated): after a call with correction on a table with a non-empty
\* baseline subset, the geometric mean of speedup over the baseline subset
\* is 1.
C1_GMeanIsOne ==
    (Returned /\ correction /\ BaselineSubset # {})
        => gmean(Series(data, BaselineSubset, speedup_col_name)) = One

\* C2 (as stated): the order in which the groups are visited does not
\* change the speedup and baseline_time the call leaves in any row.
C2_OrderIndependent ==
    Returned =>
        \A o \in Orders(data) :
            Derived(RunLoop(InitColumns(data), InitColumns(data), o, correction))
                = Derived(data)

\* C3: after the call every row's baseline_time is the aggregate of the
\* timing column over the baseline subset, the same for all rows of all
\* groups, and no row keeps the initial 0.
C3_BaselineTime ==
    Returned =>
        \A i \in DOMAIN data :
            /\ data[i].baseline_time = Reference
            /\ data[i].baseline_time # Zero

C3_Witness ==
    /\ Returned
    /\ Cardinality(KeysPresent) = 2
    /\ BaselineSubset # {}
    /\ \E k \in KeysPresent : GroupIndex(data, k) \cap BaselineSubset = {}
    /\ \A i \in DOMAIN data : data[i].baseline_time = Reference

\* C4: without correction, after the call speedup * time = baseline_time in
\* every row (non-empty baseline subset).
C4_SpeedupIdentity ==
    (Returned /\ ~correction /\ BaselineSubset # {}) =>
        \A i \in DOMAIN data :
            NumMul(data[i].speedup, FromInt(data[i][time_column]))
                = data[i].baseline_time

C4_Witness ==
    /\ Returned /\ ~correction /\ BaselineSubset # {}
    /\ \E i \in DOMAIN data : data[i].speedup # One
    /\ \A i \in DOMAIN data :
          NumMul(data[i].speedup, FromInt(data[i][time_column]))
              = data[i].baseline_time

\* C5: a second call without correction leaves the speedup and
\* baseline_time columns as the first call left them.
C5_SecondCallSame ==
    (Returned /\ calls >= 2 /\ ~correction) => Derived(data) = Derived(prev)

C5_Witness ==
    /\ Returned /\ calls = 2 /\ ~correction
    /\ \E i \in DOMAIN data : data[i].speedup \notin {One, NaN}
    /\ Derived(data) = Derived(prev)

\* C6: with an empty baseline subset the call returns, and every row's
\* speedup and baseline_time are NaN.
MatchesFilter(row) ==
    \A n \in DOMAIN baseline_filter_col :
        row[baseline_filter_col[n]] = baseline_filter_val[n]

C6_EmptyBaselineNaN ==
    (Returned /\ ~ \E i \in DOMAIN data : MatchesFilter(data[i])) =>
        \A i \in DOMAIN data :
            data[i].speedup = NaN /\ data[i].baseline_time = NaN

C6_Witness ==
    /\ Returned
    /\ ~ \E i \in DOMAIN data : MatchesFilter(data[i])
    /\ \A n \in DOMAIN baseline_filter_col :
          MatchIndex(data, baseline_filter_col[n], baseline_filter_val[n]) # {}
    /\ Cardinality(KeysPresent) = 2
    /\ \A i \in DOMAIN data :
          data[i].speedup = NaN /\ data[i].baseline_time = NaN

\* C9 (as stated): the groups are visited in first-seen order of their
\* keys: a key first seen before another is visited before it.
FirstSeen(k) == CHOOSE i \in DOMAIN data :
                    data[i][key] = k /\ \A j \in 1..(i - 1) : data[j][key] # k
Position(k) == CHOOSE n \in DOMAIN processed : processed[n] = k

C9_FirstSeenOrder ==
    \A k1, k2 \in KeysPresent :
        (FirstSeen(k1) < FirstSeen(k2) /\ k2 \in Range(processed)) =>
            (k1 \in Range(processed) /\ Position(k1) < Position(k2))

\* C9 (amended): the groups are visited in ascending order of their keys,
\* each key once, and all of them by the time the call returns.
C9_SortedOrder ==
    /\ \A a, b \in DOMAIN processed : a < b => processed[a] < processed[b]
    /\ Range(processed) \subseteq KeysPresent
    /\ Returned => Range(processed) = KeysPresent

C9_Witness ==
    /\ Returned
    /\ data[1][key] = 2
    /\ processed = <<1, 2>>


\* ----------------------------------------------------- fix_label_length
Chars == {"a", "."}
Strings == UNION {[1..n -> Chars] : n \in 0..MaxLabelLen}
LabelLists == UNION {[1..n -> Strings] : n \in 0..MaxLabels}
Ellipsis == <<".", ".", ".">>

\* Python's l[:k]: the first k items, or all but the last -k for k < 0.
SliceTo(l, k) ==
    IF k >= 0 THEN SubSeq(l, 1, IF k < Len(l) THEN k ELSE Len(l))
    ELSE SubSeq(l, 1, IF Len(l) + k > 0 THEN Len(l) + k ELSE 0)

\* The loop body: one label.
FixLabel(l, max) ==
    IF Len(l) <= max THEN l ELSE SliceTo(l, max - 3) \o Ellipsis

RECURSIVE fix_label_length(_, _)
fix_label_length(ls, max) ==
    IF ls = <<>> THEN <<>>
    ELSE <<FixLabel(Head(ls), max)>> \o fix_label_length(Tail(ls), max)

CallFixLabelLength ==
    /\ pc = "call"
    /\ pc' = "done"
    /\ fixed_labels' = fix_label_length(labels, max_length)
    /\ UNCHANGED <<labels, max_length, speedupVars, outlierVars, barVars>>

InitLabel ==
    /\ labels \in LabelLists
    /\ max_length \in 0..MaxLength
    /\ fixed_labels = <<>>
    /\ pc = "call"
    /\ InertSpeedup /\ InertOutliers /\ InertBars

NextLabel == CallFixLabelLength

SpecLabel == InitLabel /\ [][NextLabel]_vars

EndsWithEllipsis(l) ==
    Len(l) >= 3 /\ SubSeq(l, Len(l) - 2, Len(l)) = Ellipsis

LabelContract ==
    /\ Len(fixed_labels) = Len(labels)
    /\ \A n \in DOMAIN labels :
          /\ Len(fixed_labels[n]) <= max_length
          /\ Len(labels[n]) <= max_length => fixed_labels[n] = labels[n]
          /\ Len(labels[n]) > max_length => EndsWithEllipsis(fixed_labels[n])

\* C7 (as stated): for every max length L, L < 3 included, there is one
\* output label per input, no output label is longer than L, a label no
\* longer than L is unchanged, and a truncated label ends with "...".
C7_AnyLength == pc = "done" => LabelContract

\* C7, what the code does: the contract holds for every max length L >= 3.
C7_HoldsFrom3 == (pc = "done" /\ max_length >= 3) => LabelContract

\* ------------------------------------------------------ remove_outliers
DataSeqs == UNION {[1..n -> 0..MaxValue] : n \in 0..MaxData}

RECURSIVE SumSeq(_)
SumSeq(q) == IF q = <<>> THEN 0 ELSE Head(q) + SumSeq(Tail(q))

RECURSIVE FracSum(_)
FracSum(q) == IF q = <<>> THEN <<0, 1>> ELSE FracAdd(Head(q), FracSum(Tail(q)))

\* st.zscore(data): (x - mean) / std with the population standard deviation.
\* std is a square root, so a score is kept as its sign and its square,
\* (x - mean)^2 / var; it is NaN when var = 0 (0 / 0).  The scores are
\* the exact quotients; the code computes them in float64 (see RoundingFree).
Mean(d) == Frac(SumSeq(d), Len(d))

Variance(d) ==
    LET mu == Mean(d)
    IN  FracDivInt(
            FracSum([i \in DOMAIN d |->
                FracMul(FracSub(<<d[i], 1>>, mu), FracSub(<<d[i], 1>>, mu))]),
            Len(d))

zscore(d) ==
    LET mu == Mean(d)
        var == Variance(d)
    IN  [i \in DOMAIN d |->
            IF var[1] = 0 THEN [nan |-> TRUE, neg |-> FALSE, sq |-> <<0, 1>>]
            ELSE [nan |-> FALSE,
                  neg |-> FracLess(<<d[i], 1>>, mu),
                  sq |-> FracMul(
                      FracMul(FracSub(<<d[i], 1>>, mu), FracSub(<<d[i], 1>>, mu)),
                      <<var[2], var[1]>>)]]

\* np.abs(z) < sigmas: False for NaN.
AbsLess(z, s) == ~z.nan /\ s > 0 /\ FracLess(z.sq, <<s * s, 1>>)

\* q is a binary fraction: its denominator is a power of two.
RECURSIVE IsPow2(_)
IsPow2(n) == n = 1 \/ (n % 2 = 0 /\ IsPow2(n \div 2))

IsBinary(q) == IsPow2(q[2])

\* The float64 comparison np.abs(z) < sigmas gives the result of the exact
\* comparison for the data d.  A score whose exact value is not sigmas is
\* far from sigmas compared with the rounding error (its square is a
\* fraction of small integers), so rounding does not change its side.  A
\* score whose exact value is sigmas is computed exactly when the mean and
\* the variance are binary fractions of few bits: the deviations, their
\* squares and sum, the variance, its square root and the quotient are then
\* all representable.  Otherwise the mean or the variance is rounded and
\* the computed score lands on sigmas or just beside it, e.g. data
\* [3, 2, 2, 2, 2] with sigmas 2 has the score 1.9999999999999998 for the
\* value 3, which is kept: these inputs are decided by float64 rounding
\* and the order of numpy's summation, and the exact scores do not model
\* them.
RoundingFree(d, s) ==
    LET z == zscore(d)
    IN  \A i \in DOMAIN d :
            (~z[i].nan /\ z[i].sq = <<s * s, 1>>)
                => (IsBinary(Mean(d)) /\ IsBinary(Variance(d)))

\* data[mask]: the values where the mask is True, in their order.
RECURSIVE MaskSelect(_, _, _)
MaskSelect(d, mask, n) ==
    IF n = 0 THEN <<>>
    ELSE IF mask[n] THEN Append(MaskSelect(d, mask, n - 1), d[n])
    ELSE MaskSelect(d, mask, n - 1)

remove_outliers(d, s) ==
    LET z == zscore(d)
    IN  MaskSelect(d, [i \in DOMAIN d |-> AbsLess(z[i], s)], Len(d))

CallRemoveOutliers ==
    /\ pc = "call"
    /\ pc' = "done"
    /\ kept' = remove_outliers(xs, sigmas)
    /\ UNCHANGED <<xs, sigmas, speedupVars, labelVars, barVars>>

\* The inputs are the data and thresholds that RoundingFree admits.
InitOutliers ==
    /\ xs \in DataSeqs
    /\ sigmas \in 0..MaxSigma
    /\ RoundingFree(xs, sigmas)
    /\ kept = <<>>
    /\ pc = "call"
    /\ InertSpeedup /\ InertLabel /\ InertBars

NextOutliers == CallRemoveOutliers

SpecOutliers == InitOutliers /\ [][NextOutliers]_vars

\* With n = Len(xs), S = sum of xs and Q = sum of their squares:
\* |x - mean| = |n x - S| / n and std = sqrt(n Q - S^2) / n.
Dist2(i) == (Len(xs) * xs[i] - SumSeq(xs)) * (Len(xs) * xs[i] - SumSeq(xs))
Spread2 == Len(xs) * SumSeq([i \in DOMAIN xs |-> xs[i] * xs[i]])
               - SumSeq(xs) * SumSeq(xs)

\* |xs[i] - mean| <= sigmas * std, and the same with <.
Within(i) == Dist2(i) <= sigmas * sigmas * Spread2
StrictlyWithin(i) == Dist2(i) < sigmas * sigmas * Spread2

\* q is the subsequence of xs at the indices in I, in the order of xs.
IsSelection(q, I) ==
    /\ Len(q) = Cardinality(I)
    /\ \A i \in I :
          q[Cardinality({j \in I : j <= i})] = xs[i]

\* C8 (as stated): exactly the values within sigmas standard deviations of
\* the mean are retained (a value exactly sigmas standard deviations away
\* is within), in their original order.
C8_WithinInclusive ==
    pc = "done" => IsSelection(kept, {i \in DOMAIN xs : Within(i)})

\* C8, what the code does on the inputs that RoundingFree admits: exactly
\* the values strictly less than sigmas standard deviations from the mean
\* are retained, in their original order; a value exactly sigmas standard
\* deviations away is discarded, and so is every value of a constant
\* sequence.  (On the other inputs float64 rounding decides whether a
\* value exactly sigmas standard deviations away is kept.)
C8_StrictlyWithin ==
    pc = "done" => IsSelection(kept, {i \in DOMAIN xs : StrictlyWithin(i)})

\* ------------------------------------------------------------ add_labels
\* The axis: ax.patches as the sequence of the bars' heights (patch i of
\* Python is bars[i + 1]), and ax.get_ylim()[1] as ylim.  labels and
\* vertical_coords are not given.
YLims == {20, 40}
BarSeqs == UNION {[1..n -> 0..MaxHeight] : n \in 1..MaxBars}

\* A vertical_offsets argument: one offset per bar, all different.
GivenOffsets(n) == [i \in 1..n |-> 10 * i]

\* Python's l[a:b] for a >= 0 and b None or >= 0, as the indices it keeps.
SliceIndex(n, a, b) ==
    {i \in 1..n : i > a /\ (b = None \/ i <= b[1])}

\* The i-th (from 1) smallest member of the set of integers S.
Nth(S, i) == CHOOSE x \in S : Cardinality({y \in S : y <= x}) = i

\* np.argmax(labels): the first index of the largest value, from 0.
argmax(ls) ==
    (CHOOSE i \in DOMAIN ls :
        /\ \A j \in DOMAIN ls : ls[j] <= ls[i]
        /\ \A j \in 1..(i - 1) : ls[j] < ls[i]) - 1

\* The texts add_labels draws, in order: for each, the bar (index into
\* ax.patches, from 0) it is drawn above, the value it shows, and the
\* vertical offset and bar height its y coordinate is the sum of.
add_labels ==
    LET vertical_offsets ==
            IF offsets_arg = <<>> THEN [i \in 1..Len(bars) |-> (ylim * 5) \div 100]
            ELSE offsets_arg
        labs == bars
        selected ==
            IF patch_num = {} THEN DOMAIN bars
            ELSE {p \in DOMAIN bars : (p - 1) \in patch_num}
        \* patches[n] is the index into ax.patches of the n-th selected patch
        patches == [n \in 1..Cardinality(selected) |-> Nth(selected, n)]
        sliced == SliceIndex(Len(patches), skip_bars, max_bars)
        \* enumerate(patches[skip_bars:max_bars]): i counts from 0
        item(i) == patches[Nth(sliced, i + 1)]
        shown(i) ==
            /\ labs[i + 1] # 0
            /\ (i > 0 \/ ~skip_zero)
            /\ (~max_only \/ i = argmax(labs))
            /\ i < Len(labs)
            /\ i < Len(vertical_offsets)
        drawn == {i \in 0..(Cardinality(sliced) - 1) : shown(i)}
    IN  [n \in 1..Cardinality(drawn) |->
            LET i == Nth(drawn, n)
            IN  [bar |-> item(i) - 1,
                 text |-> labs[i + 1],
                 offset |-> vertical_offsets[i + 1],
                 height |-> bars[item(i)]]]

CallAddLabels ==
    /\ pc = "call"
    /\ pc' = "done"
    /\ texts' = add_labels
    /\ UNCHANGED <<bars, offsets_arg, patch_num, skip_zero, max_only,
                   skip_bars, max_bars, ylim, speedupVars, labelVars,
                   outlierVars>>

InitBars ==
    /\ bars \in BarSeqs
    /\ offsets_arg \in {<<>>, GivenOffsets(Len(bars))}
    /\ patch_num \in SUBSET (0..(Len(bars) - 1))
    /\ skip_zero \in BOOLEAN
    /\ max_only \in BOOLEAN
    /\ skip_bars \in 0..(MaxBars - 1)
    /\ max_bars \in {None} \cup {Some(b) : b \in 0..MaxBars}
    /\ ylim \in YLims
    /\ texts = <<>>
    /\ pc = "call"
    /\ InertSpeedup /\ InertLabel /\ InertOutliers

NextBars == CallAddLabels

SpecBars == InitBars /\ [][NextBars]_vars

\* The offset that belongs to bar b (index from 0).
OffsetOf(b) ==
    IF offsets_arg = <<>> THEN (ylim * 5) \div 100 ELSE offsets_arg[b + 1]

\* C10 (as stated): without labels, every text drawn above a bar shows
\* that bar's own height, with that bar's own vertical offset, whatever
\* skip_bars, max_bars and patch_num; with skip_bars = n the first n bars
\* carry no text.
C10_OwnHeight ==
    pc = "done" =>
        \A n \in DOMAIN texts :
            /\ texts[n].text = bars[texts[n].bar + 1]
            /\ texts[n].offset = OffsetOf(texts[n].bar)
            /\ patch_num = {} => texts[n].bar >= skip_bars

=============================================================================
